---- MODULE Spec2Model ----
(***************************************************************************)
(* Streaming frame synchronizer of sensor_reader (src/main.rs).            *)
(*                                                                         *)
(* The ingestion loop of main() reads chunks from the serial port,         *)
(* appends them to `buffer` and runs the extraction loop                   *)
(* `while buffer.len() >= FRAME_LEN`.  One step of the model is one        *)
(* port.read() result or one iteration of that while loop.                 *)
(***************************************************************************)
EXTENDS Integers, Sequences, FiniteSets, TLC

\* ------------------------------------------------------------------------
\* Program constants
\* ------------------------------------------------------------------------
FRAME_HEADER_1 == 60

FRAME_HEADER_2 == 2

FRAME_LEN == 17

\* serial_buf is vec![0; 1000]: one read returns at most this many bytes
SERIAL_BUF_LEN == 1000

\* ------------------------------------------------------------------------
\* Bounds of the model
\* ------------------------------------------------------------------------
\* longest byte stream the Byte Source delivers in one run
MaxStream == 38

\* largest number of segments a stream is assembled from
MaxSegs == 4

\* ------------------------------------------------------------------------
\* Pure functions
\* ------------------------------------------------------------------------
Min(a, b) == IF a < b THEN a ELSE b

\* faulty variant: saturating_add for wrapping_add
RECURSIVE checksum_loop_saturating(_, _, _)
checksum_loop_saturating(data, i, sum) ==
    IF i > Len(data) THEN sum
    ELSE checksum_loop_saturating(data, i + 1,
                                  IF sum + data[i] > 65535 THEN 65535 ELSE sum + data[i])

\* calculate_checksum: u16 accumulator, wrapping_add per byte, low 8 bits
RECURSIVE checksum_loop(_, _, _)
checksum_loop(data, i, sum) ==
    IF i > Len(data) THEN sum
    ELSE checksum_loop(data, i + 1, (sum + data[i]) % 65536)

calculate_checksum(data) == checksum_loop(data, 1, 0) % 256

\* faulty variant: the two bytes are read in little-endian order
from_le_bytes(hi, lo) == lo * 256 + hi

\* u16::from_be_bytes([hi, lo])
from_be_bytes(hi, lo) == hi * 256 + lo

\* int as f32 + (dec as f32 / 10.0), kept in tenths
tenths(int, dec) == 10 * int + dec

\* the SensorData built at the end of parse_frame (buffer is 1-based here)
SensorData(b) ==
    [ eco2        |-> from_be_bytes(b[3], b[4]),
      ech2o       |-> from_be_bytes(b[5], b[6]),
      tvoc        |-> from_be_bytes(b[7], b[8]),
      pm2_5       |-> from_be_bytes(b[9], b[10]),
      pm10        |-> from_be_bytes(b[11], b[12]),
      temperature |-> tenths(b[13], b[14]),
      humidity    |-> tenths(b[15], b[16]) ]

\* faulty variant: the checksum byte is not verified
parse_frame_outcome_unchecked(b) ==
    IF Len(b) < FRAME_LEN THEN "none"
    ELSE IF b[1] # FRAME_HEADER_1 \/ b[2] # FRAME_HEADER_2 THEN "none"
    ELSE "some"

\* parse_frame: "none", "mismatch" (None after the checksum eprintln!) or "some"
parse_frame_outcome(b) ==
    IF Len(b) < FRAME_LEN THEN "none"
    ELSE IF b[1] # FRAME_HEADER_1 \/ b[2] # FRAME_HEADER_2 THEN "none"
    ELSE IF calculate_checksum(SubSeq(b, 1, 16)) # b[17] THEN "mismatch"
    ELSE "some"

\* parse_frame as an Option: <<>> is None, <<d>> is Some(d)
parse_frame(b) ==
    IF parse_frame_outcome(b) = "some" THEN << SensorData(b) >> ELSE << >>

\* buffer.iter().position(|&x| x == FRAME_HEADER_1): <<>> or <<start_idx>> (0-based)
position(b) ==
    LET hits == { i \in 1..Len(b) : b[i] = FRAME_HEADER_1 }
    IN  IF hits = {} THEN << >>
        ELSE << (CHOOSE i \in hits : \A j \in hits : i <= j) - 1 >>

\* faulty variant: the range is inclusive, drain(0..=n)
drain_inclusive(b, n) == SubSeq(b, n + 2, Len(b))

\* buffer.drain(0..n)
drain(b, n) == SubSeq(b, n + 1, Len(b))

\* faulty variant: the whole candidate window is dropped on a mismatch
remove_first_window(b) == drain(b, FRAME_LEN)

\* faulty variant: the last byte is removed, buffer.pop()
remove_first_pops(b) == SubSeq(b, 1, Len(b) - 1)

\* faulty variant: nothing is removed on a mismatch
remove_first_nothing(b) == b

\* buffer.remove(0)
remove_first(b) == drain(b, 1)

\* faulty variant: the parsed frame stays in the buffer
drain_frame_forgotten(b) == b

\* buffer.drain(0..FRAME_LEN) after a frame was parsed
drain_frame(b) == drain(b, FRAME_LEN)

\* faulty variant: the chunk replaces the buffer instead of extending it
extend_from_slice_overwrite(b, chunk) == chunk

\* faulty variant: one byte of serial_buf beyond the t bytes read is appended
extend_from_slice_stale(b, chunk) == b \o chunk \o << 0 >>

\* buffer.extend_from_slice(chunk)
extend_from_slice(b, chunk) == b \o chunk

\* faulty variant: the loop goes on while any byte is left
loop_condition_nonempty(b) == Len(b) >= 1

\* faulty variant: `>` for `>=`
loop_condition_strict(b) == Len(b) > FRAME_LEN

\* the condition of `while buffer.len() >= FRAME_LEN`
loop_condition(b) == Len(b) >= FRAME_LEN

\* ------------------------------------------------------------------------
\* One iteration of `while buffer.len() >= FRAME_LEN { ... }`
\* (the loop condition is known to hold).  kind names the branch taken.
\* ------------------------------------------------------------------------
LoopBody(b) ==
    LET pos == position(b) IN
    IF pos = << >>
    THEN [ kind |-> "clear", buf |-> << >>, out |-> << >>, diag |-> FALSE,
           at |-> Len(b), brk |-> FALSE ]
    ELSE
      LET start_idx == pos[1]
          b1 == IF start_idx > 0 THEN drain(b, start_idx) ELSE b
      IN
      IF Len(b1) < FRAME_LEN
      THEN [ kind |-> "await", buf |-> b1, out |-> << >>, diag |-> FALSE,
             at |-> start_idx, brk |-> TRUE ]
      ELSE IF b1[2] # FRAME_HEADER_2
      THEN [ kind |-> "header2", buf |-> remove_first(b1), out |-> << >>, diag |-> FALSE,
             at |-> start_idx, brk |-> FALSE ]
      ELSE
        LET frame_bytes == SubSeq(b1, 1, FRAME_LEN) IN
        IF parse_frame(frame_bytes) # << >>
        THEN [ kind |-> "some", buf |-> drain_frame(b1),
               out |-> parse_frame(frame_bytes), diag |-> FALSE,
               at |-> start_idx, brk |-> FALSE ]
        ELSE [ kind |-> "none", buf |-> remove_first(b1), out |-> << >>,
               diag |-> parse_frame_outcome(frame_bytes) = "mismatch",
               at |-> start_idx, brk |-> FALSE ]

\* the whole `while buffer.len() >= FRAME_LEN` loop, run to its exit on b:
\* the buffer it leaves and the SensorData it emits after those in `out`
RECURSIVE RunPass(_, _)
RunPass(b, out) ==
    IF ~loop_condition(b) THEN [ buf |-> b, out |-> out ]
    ELSE LET r == LoopBody(b) IN
         IF r.brk THEN [ buf |-> r.buf, out |-> out \o r.out ]
         ELSE RunPass(r.buf, out \o r.out)

\* ------------------------------------------------------------------------
\* The byte streams fed to the model: concatenations of a few segments
\* ------------------------------------------------------------------------
\* the frame of test_parse_frame_valid (eCO2 400 ... 25.5 C, 50.2 %)
FrameA == << 60, 2, 1, 144, 0, 5, 0, 10, 0, 20, 0, 30, 25, 5, 50, 2, 98 >>

\* a valid frame with a fractional byte >= 10 and a marker-A byte inside
FrameB == << 60, 2, 0, 1, 0, 1, 0, 1, 0, 1, 0, 60, 10, 15, 20, 5, 176 >>

\* FrameA with a corrupted checksum byte
BadFrame == << 60, 2, 1, 144, 0, 5, 0, 10, 0, 20, 0, 30, 25, 5, 50, 2, 99 >>

\* 17 bytes without a marker A
Noise == << 7, 7, 7, 7, 7, 7, 7, 7, 7, 7, 7, 7, 7, 7, 7, 7, 7 >>

\* 19 bytes holding two valid frames that overlap: one at offset 0, one at
\* offset 2
Nested == << 60, 2, 60, 2, 0, 0, 0, 0, 0, 0, 0, 0, 0, 0, 0, 0, 124, 0, 186 >>

Segments ==
    { FrameA, FrameB, BadFrame, Noise, Nested,
      << 7, 60 >>,                     \* a noise byte and a lone marker A
      << 60, 2 >> }                    \* a spurious header pair

RECURSIVE Streams(_)
Streams(n) ==
    IF n = 0 THEN { << >> }
    ELSE LET shorter == Streams(n - 1) IN
         shorter \cup { s \o g : s \in shorter, g \in Segments }

Inputs == { s \in Streams(MaxSegs) : Len(s) <= MaxStream }

\* ------------------------------------------------------------------------
\* State
\* ------------------------------------------------------------------------
VARIABLES
    input,      \* the bytes the Byte Source will deliver during this run
    rcvd,       \* how many of them port.read has returned so far
    buffer,     \* Vec<u8> buffer
    pc,         \* "read": at port.read; "while": at the loop condition; "done"
    lastRead,   \* outcome of the last port.read: "none", "empty" (Ok(0)),
                \* "data" (Ok(t), t > 0), "timeout", "error"
    emitted,    \* the SensorData printed and posted so far, in order
    windows,    \* stream offset of the window of each emitted SensorData
    diags,      \* stream offsets of the windows reported as checksum mismatch
    lastSend,   \* outcome of the req.send() just made: "ok" (2xx), "status"
                \* (another status), "error" (Err(e)); "none" once it is dropped
    result      \* what main has returned: "running" until it returns, then "Ok"

vars == << input, rcvd, buffer, pc, lastRead, emitted, windows, diags, lastSend, result >>

\* stream offset of buffer[0]
Base == rcvd - Len(buffer)

\* the shape of the state
TypeOK ==
    /\ input \in Inputs
    /\ rcvd \in 0..Len(input)
    /\ buffer \in Seq(0..255)
    /\ pc \in { "read", "while", "done" }
    /\ lastRead \in { "none", "empty", "data", "timeout", "error" }
    /\ \A k \in 1..Len(emitted) :
         /\ DOMAIN emitted[k] =
              { "eco2", "ech2o", "tvoc", "pm2_5", "pm10", "temperature", "humidity" }
         /\ \A f \in { "eco2", "ech2o", "tvoc", "pm2_5", "pm10" } :
              emitted[k][f] \in 0..65535
         /\ emitted[k].temperature \in 0..2805
         /\ emitted[k].humidity \in 0..2805
    /\ windows \in Seq(0..Len(input))
    /\ diags \in Seq(0..Len(input))
    /\ lastSend \in { "none", "ok", "status", "error" }
    /\ result \in { "running", "Ok" }

Init ==
    /\ input \in Inputs
    /\ rcvd = 0
    /\ buffer = << >>
    /\ pc = "read"
    /\ lastRead = "none"
    /\ emitted = << >>
    /\ windows = << >>
    /\ diags = << >>
    /\ lastSend = "none"
    /\ result = "running"

\* ------------------------------------------------------------------------
\* port.read
\* ------------------------------------------------------------------------
\* Ok(t): buffer.extend_from_slice(&serial_buf[..t])
ReadData ==
    /\ pc = "read"
    /\ \E n \in 0..Min(Len(input) - rcvd, SERIAL_BUF_LEN) :
         /\ buffer' = extend_from_slice(buffer, SubSeq(input, rcvd + 1, rcvd + n))
         /\ rcvd' = rcvd + n
         /\ lastRead' = IF n = 0 THEN "empty" ELSE "data"
    /\ pc' = "while"
    /\ UNCHANGED << input, emitted, windows, diags, lastSend, result >>

\* faulty variant: a timeout drops the partial frame held in the buffer
ReadTimeout_dropsBuffer ==
    /\ pc = "read"
    /\ lastRead' = "timeout"
    /\ pc' = "read"
    /\ buffer' = << >>
    /\ UNCHANGED << input, rcvd, emitted, windows, diags, lastSend, result >>

\* Err(TimedOut): continue
ReadTimeout ==
    /\ pc = "read"
    /\ lastRead' = "timeout"
    /\ pc' = "read"
    /\ UNCHANGED << input, rcvd, buffer, emitted, windows, diags, lastSend, result >>

\* faulty variant: the failed read is tried again
ReadError_retries ==
    /\ pc = "read"
    /\ lastRead' = "error"
    /\ pc' = "read"
    /\ UNCHANGED << input, rcvd, buffer, emitted, windows, diags, lastSend, result >>

\* Err(e): eprintln!, break; main returns Ok(())
ReadError ==
    /\ pc = "read"
    /\ lastRead' = "error"
    /\ pc' = "done"
    /\ result' = "Ok"
    /\ UNCHANGED << input, rcvd, buffer, emitted, windows, diags, lastSend >>

\* ------------------------------------------------------------------------
\* while buffer.len() >= FRAME_LEN
\* ------------------------------------------------------------------------
\* the loop condition fails: back to port.read
WhileExit ==
    /\ pc = "while"
    /\ ~loop_condition(buffer)
    /\ pc' = "read"
    /\ lastSend' = "none"
    /\ UNCHANGED << input, rcvd, buffer, lastRead, emitted, windows, diags, result >>

\* one iteration of the loop body (the outcome of req.send() apart)
Iterate ==
    /\ pc = "while"
    /\ loop_condition(buffer)
    /\ LET r == LoopBody(buffer) IN
         /\ buffer' = r.buf
         /\ emitted' = emitted \o r.out
         /\ windows' = IF r.out # << >> THEN Append(windows, Base + r.at) ELSE windows
         /\ diags' = IF r.diag THEN Append(diags, Base + r.at) ELSE diags
         /\ pc' = IF r.brk THEN "read" ELSE "while"
    /\ UNCHANGED << input, rcvd, lastRead, result >>

\* no marker A anywhere: buffer.clear()
ClearBuffer ==
    /\ LoopBody(buffer).kind = "clear"
    /\ Iterate
    /\ lastSend' = "none"

\* garbage drained, fewer than FRAME_LEN bytes left: break
AwaitMore ==
    /\ LoopBody(buffer).kind = "await"
    /\ Iterate
    /\ lastSend' = "none"

\* buffer[1] != FRAME_HEADER_2: buffer.remove(0); continue
SecondHeaderMismatch ==
    /\ LoopBody(buffer).kind = "header2"
    /\ Iterate
    /\ lastSend' = "none"

\* what req.send() may come to: a 2xx response, another response, Err(e)
SendOutcomes == { "ok", "status", "error" }

\* faulty variant: a frame whose delivery failed stays in the buffer and is
\* posted again
AcceptFrame_retriesDelivery ==
    /\ LoopBody(buffer).kind = "some"
    /\ \E o \in SendOutcomes :
         /\ lastSend' = o
         /\ IF o = "ok" THEN Iterate
            ELSE /\ pc = "while"
                 /\ emitted' = emitted \o LoopBody(buffer).out
                 /\ windows' = Append(windows, Base + LoopBody(buffer).at)
                 /\ UNCHANGED << input, rcvd, buffer, pc, lastRead, diags, result >>

\* parse_frame returned Some: print, post (whatever comes of it),
\* buffer.drain(0..FRAME_LEN)
AcceptFrame ==
    /\ LoopBody(buffer).kind = "some"
    /\ Iterate
    /\ \E o \in SendOutcomes : lastSend' = o

\* parse_frame returned None: buffer.remove(0)
RejectFrame ==
    /\ LoopBody(buffer).kind = "none"
    /\ Iterate
    /\ lastSend' = "none"

Next ==
    \/ ReadData
    \/ ReadTimeout
    \/ ReadError
    \/ WhileExit
    \/ ClearBuffer
    \/ AwaitMore
    \/ SecondHeaderMismatch
    \/ AcceptFrame
    \/ RejectFrame

Spec == Init /\ [][Next]_vars

\* ------------------------------------------------------------------------
\* Vocabulary of the properties
\* ------------------------------------------------------------------------
\* the bytes received so far
Stream == SubSeq(input, 1, rcvd)

\* the 17 stream bytes at offsets p .. p+16
Window(p) == SubSeq(input, p + 1, p + FRAME_LEN)

\* plain sum of the first n bytes of w
RECURSIVE ByteSum(_, _)
ByteSum(w, n) == IF n = 0 THEN 0 ELSE w[n] + ByteSum(w, n - 1)

\* validity of a frame as the data model defines it
IsValidFrame(w) ==
    /\ Len(w) = 17
    /\ w[1] = 60
    /\ w[2] = 2
    /\ w[17] = ByteSum(w, 16) % 256

Range(q) == { q[i] : i \in 1..Len(q) }

PassOver == pc # "while"

\* ------------------------------------------------------------------------
\* C1  Chunking independence: whenever a pass is over, the SensorData
\* emitted so far, over whatever chunks the stream arrived in, are exactly
\* those one pass over the whole received stream emits from an empty buffer.
\* ------------------------------------------------------------------------
C1_ChunkingIndependence ==
    PassOver => emitted = RunPass(Stream, << >>).out

\* a chunked run that emitted a frame and whose buffer differs from the one
\* the single-chunk run leaves
C1_Witness ==
    /\ pc = "read"
    /\ emitted # << >>
    /\ buffer # RunPass(Stream, << >>).buf

\* ------------------------------------------------------------------------
\* C2  Garbage, frame, garbage, frame.
\* ------------------------------------------------------------------------
\* the stream is G1 F1 G2 F2: F1 = Window(i), F2 = Window(j) are valid frames,
\* G1 (offsets 0..i-1) and G2 (offsets i+17..j-1) are non-empty and are not
\* themselves valid frames
GarbageFrameGarbageFrame(i, j) ==
    /\ j + FRAME_LEN = Len(input)
    /\ i >= 1
    /\ j >= i + FRAME_LEN + 1
    /\ IsValidFrame(Window(i))
    /\ IsValidFrame(Window(j))
    /\ ~IsValidFrame(SubSeq(input, 1, i))
    /\ ~IsValidFrame(SubSeq(input, i + FRAME_LEN + 1, j))

\* the stream offsets lying in G1 or G2
GarbageOffsets(i, j) == (0..(i - 1)) \cup ((i + FRAME_LEN)..(j - 1))

\* no marker A of the garbage is directly followed by marker B
NoHeaderPairInGarbage(i, j) ==
    \A p \in GarbageOffsets(i, j) :
        input[p + 1] = FRAME_HEADER_1 => input[p + 2] # FRAME_HEADER_2

\* what the claim promises once the whole stream went through
TwoReadingsOnly(i, j) ==
    /\ emitted = << SensorData(Window(i)), SensorData(Window(j)) >>
    /\ windows = << i, j >>
    /\ (Range(windows) \cup Range(diags)) \cap GarbageOffsets(i, j) = {}

AllFed == pc = "read" /\ rcvd = Len(input)

\* C2 as stated: for every stream G1 F1 G2 F2, exactly the two Readings of F1
\* and F2 are emitted, and no Reading or checksum diagnostic comes from a
\* window starting in G1 or G2.
C2_AsStated ==
    AllFed =>
        \A i, j \in 0..Len(input) :
            GarbageFrameGarbageFrame(i, j) => TwoReadingsOnly(i, j)

\* C2 amended: the same, for garbage in which no 0x3C is directly followed
\* by 0x02.
C2_GarbageWithoutHeaderPair ==
    AllFed =>
        \A i, j \in 0..Len(input) :
            (GarbageFrameGarbageFrame(i, j) /\ NoHeaderPairInGarbage(i, j))
                => TwoReadingsOnly(i, j)

\* a stream noise+marker, frame, noise+marker, frame gone through completely
C2_Witness ==
    /\ AllFed
    /\ \E i, j \in 0..Len(input) :
         /\ GarbageFrameGarbageFrame(i, j)
         /\ NoHeaderPairInGarbage(i, j)
         /\ \E p \in GarbageOffsets(i, j) : input[p + 1] = FRAME_HEADER_1
         /\ Len(emitted) = 2

\* ------------------------------------------------------------------------
\* C3  Soundness of acceptance.
\* ------------------------------------------------------------------------
\* every emitted SensorData decodes a received 17-byte window that is a
\* valid frame
EmittedFromValidWindows ==
    /\ Len(windows) = Len(emitted)
    /\ \A k \in 1..Len(emitted) :
         /\ windows[k] >= 0
         /\ windows[k] + FRAME_LEN <= rcvd
         /\ IsValidFrame(Window(windows[k]))
         /\ emitted[k] = SensorData(Window(windows[k]))

\* the 17 bytes starting at the first marker A of the buffer (<<>> if none)
Candidate ==
    IF \E k \in 1..Len(buffer) : buffer[k] = 60
    THEN LET k == CHOOSE k \in 1..Len(buffer) :
                    /\ buffer[k] = 60
                    /\ \A m \in 1..(k - 1) : buffer[m] # 60
         IN  SubSeq(buffer, k, Min(k + 16, Len(buffer)))
    ELSE << >>

\* an iteration that finds a valid frame at the first marker A emits it
ValidCandidateAccepted ==
    (pc = "while" /\ Len(buffer) >= 17 /\ IsValidFrame(Candidate))
        => emitted' = Append(emitted, SensorData(Candidate))

\* C3: each emitted Reading is the decoding of 17 contiguous stream bytes with
\* header 0x3C 0x02 and a matching checksum byte (so a window with a wrong
\* header or checksum byte never yields one), and a valid window examined by
\* the loop is never rejected, whatever its field bytes.
C3_Soundness ==
    /\ []EmittedFromValidWindows
    /\ [][ValidCandidateAccepted]_vars

\* FrameB (temperature fraction 15) was accepted after a window with a wrong
\* checksum byte was rejected
C3_Witness ==
    /\ diags # << >>
    /\ \E k \in 1..Len(windows) :
         /\ Window(windows[k])[14] >= 10
         /\ \E d \in Range(diags) : d < windows[k]

\* ------------------------------------------------------------------------
\* C4  A buffer without any marker A.
\* ------------------------------------------------------------------------
NoMarker(b) == \A k \in 1..Len(b) : b[k] # 60

\* C4 as stated: a pass over a buffer of any length that holds no marker A
\* emits nothing and ends with the buffer empty.  (Such a pass only removes
\* bytes, so every step of it starts from a buffer without marker A.)
C4_AsStated ==
    [][ (pc = "while" /\ NoMarker(buffer))
            => /\ emitted' = emitted
               /\ (pc' = "read" => buffer' = << >>) ]_vars

\* C4 amended: a pass over a buffer of at least 17 bytes that holds no marker
\* A emits nothing and ends with the buffer empty: its first iteration empties
\* the buffer and the pass then ends at once.  A pass over a buffer of fewer
\* than 17 bytes ends at once and leaves the buffer as it was.
C4_LongBufferWithoutMarker ==
    [][ /\ (pc = "while" /\ NoMarker(buffer) /\ Len(buffer) >= 17)
            => (buffer' = << >> /\ emitted' = emitted /\ diags' = diags
                /\ pc' = "while")
        /\ (pc = "while" /\ Len(buffer) < 17)
            => (buffer' = buffer /\ emitted' = emitted /\ diags' = diags
                /\ pc' = "read") ]_vars

\* a pass has just emptied a buffer that held only noise
C4_Witness ==
    /\ pc = "while"
    /\ buffer = << >>
    /\ rcvd >= 17
    /\ NoMarker(Stream)
    /\ lastRead = "data"

\* ------------------------------------------------------------------------
\* C5  Progress of the extraction loop.
\* ------------------------------------------------------------------------
\* the iteration about to run shortens the buffer or breaks out of the loop
IterationProgresses ==
    (pc = "while" /\ Len(buffer) >= 17)
        => \/ Len(LoopBody(buffer).buf) < Len(buffer)
           \/ LoopBody(buffer).brk

\* C5: every iteration of the extraction loop either shortens the buffer or
\* ends the pass, so that no step inside a pass leaves the buffer as it was
\* and continues.  The buffer being finite, every pass ends.
C5_Progress ==
    /\ []IterationProgresses
    /\ [][ pc = "while" => (Len(buffer') < Len(buffer) \/ pc' = "read") ]_vars

\* a pass that has reported a checksum mismatch, resynchronized by one byte,
\* and goes on with at least 17 bytes
C5_Witness ==
    /\ pc = "while"
    /\ diags # << >>
    /\ Len(buffer) >= 17
    /\ Base = diags[Len(diags)] + 1

\* ------------------------------------------------------------------------
\* C6  Bounded buffer.
\* ------------------------------------------------------------------------
\* C6: whenever a pass is over, the buffer holds fewer than 17 bytes.
C6_BoundedBuffer == PassOver => Len(buffer) < 17

\* after more than two frames' worth of input the buffer holds a partial
\* frame of 16 bytes
C6_Witness ==
    /\ pc = "read"
    /\ rcvd > 2 * 17
    /\ Len(buffer) = 16

\* ------------------------------------------------------------------------
\* C7  Empty chunks.
\* ------------------------------------------------------------------------
\* C7: the read returning 0 bytes and every step of the pass it starts leave
\* the buffer and the emitted SensorData as they were, and that pass ends at
\* its first look at the loop condition.
C7_EmptyChunkNoOp ==
    [][ lastRead' = "empty"
            => /\ buffer' = buffer
               /\ emitted' = emitted
               /\ (pc = "while" => pc' = "read") ]_vars

\* the pass of an empty chunk is over, with a partial frame buffered and a
\* SensorData emitted before
C7_Witness ==
    /\ lastRead = "empty"
    /\ pc = "read"
    /\ buffer # << >>
    /\ emitted # << >>

\* ------------------------------------------------------------------------
\* C8  A window at offset p with both header bytes has 0x02 at offset p+1,
\* a valid frame starting at offset p+1 has 0x3C there: no stream satisfies
\* the premise of C8, and no formula is stated for it.
\* ------------------------------------------------------------------------

\* ------------------------------------------------------------------------
\* C9  Order of the emitted windows.
\* ------------------------------------------------------------------------
\* C9: the k-th SensorData emitted decodes the k-th accepted window, and the
\* stream offsets of successive accepted windows increase by at least 17.
C9_WindowsInOrder ==
    /\ Len(windows) = Len(emitted)
    /\ \A k \in 1..Len(windows) : emitted[k] = SensorData(Window(windows[k]))
    /\ \A k \in 1..(Len(windows) - 1) : windows[k + 1] >= windows[k] + 17

\* two different frames emitted, with bytes dropped in between
C9_Witness ==
    /\ Len(windows) = 2
    /\ windows[2] > windows[1] + 17
    /\ emitted[1] # emitted[2]

\* ------------------------------------------------------------------------
\* C10  Read timeouts.
\* ------------------------------------------------------------------------
\* C10: a step that ends in a timed-out read changes neither the buffer nor
\* the emitted SensorData nor the bytes received, and leaves the loop at
\* port.read.
C10_TimeoutKeepsData ==
    [][ lastRead' = "timeout"
            => /\ pc = "read" /\ pc' = "read"
               /\ UNCHANGED << input, rcvd, buffer, emitted, windows, diags >> ]_vars

\* a timeout in the middle of a stream, with a partial frame buffered
C10_Witness ==
    /\ lastRead = "timeout"
    /\ buffer # << >>
    /\ emitted # << >>
    /\ rcvd < Len(input)

\* ------------------------------------------------------------------------
\* C11  A failed read ends the ingestion loop.
\* ------------------------------------------------------------------------
\* C11: a read failure other than a timeout takes main out of the loop, and
\* from then on nothing happens: no read, no iteration over the bytes still
\* buffered, no SensorData emitted or posted.
C11_ReadErrorEndsLoop ==
    /\ [](lastRead = "error" => pc = "done")
    /\ [][ pc = "done" => UNCHANGED vars ]_vars
    /\ [][ lastRead' = "error"
            => UNCHANGED << rcvd, buffer, emitted, windows, diags, lastSend >> ]_vars

\* the read failed in mid-stream, after a SensorData was emitted, with a
\* partial frame buffered
C11_Witness ==
    /\ pc = "done"
    /\ lastRead = "error"
    /\ rcvd < Len(input)
    /\ buffer # << >>
    /\ emitted # << >>

\* ------------------------------------------------------------------------
\* C12  Outcome of a run ended by a failed read.
\* ------------------------------------------------------------------------
\* C12: a run ended by a read failure other than a timeout does not end with
\* the normal outcome Ok.
C12_ReadErrorIsErrorOutcome ==
    lastRead = "error" => result # "Ok"

\* ------------------------------------------------------------------------
\* C13  The Sink's answer does not reach the synchronizer.
\* ------------------------------------------------------------------------
\* index in the buffer of its first marker A (0 if there is none)
CandidateStart ==
    IF \E k \in 1..Len(buffer) : buffer[k] = 60
    THEN CHOOSE k \in 1..Len(buffer) :
            /\ buffer[k] = 60
            /\ \A m \in 1..(k - 1) : buffer[m] # 60
    ELSE 0

\* C13: a SensorData is emitted only in a step that posts it, once, and
\* whether the post succeeds, is answered with another status or fails, that
\* step removes the frame's 17 bytes (and the garbage before it) and nothing
\* else, and the loop goes on: nothing is rolled back or posted again.
C13_DeliveryOutcomeIgnored ==
    /\ [][ emitted' # emitted => lastSend' \in { "ok", "status", "error" } ]_vars
    /\ [][ lastSend' \in { "ok", "status", "error" }
            => /\ pc = "while" /\ pc' = "while"
               /\ IsValidFrame(Candidate)
               /\ emitted' = Append(emitted, SensorData(Candidate))
               /\ buffer' = SubSeq(buffer, CandidateStart + 17, Len(buffer))
               /\ UNCHANGED << input, rcvd, lastRead, diags, result >> ]_vars

\* the post of the second frame of a run failed, and the bytes after the
\* frame are still buffered
C13_Witness ==
    /\ lastSend = "error"
    /\ Len(emitted) = 2
    /\ buffer # << >>
    /\ pc = "while"

\* ------------------------------------------------------------------------
\* C14  calculate_checksum.
\* ------------------------------------------------------------------------
\* the 16 bytes of test_calculate_checksum
ChecksumTestData == << 60, 2, 0, 1, 0, 1, 0, 1, 0, 1, 0, 1, 10, 5, 20, 5 >>

\* accumulator values from which adding the test bytes (sum 107) passes 2^16
NearWrap == 65429 .. 65535

\* the low 8 bits after the loop has run over the test bytes from acc
WrapKeepsLowBits ==
    \A acc \in NearWrap :
        checksum_loop(ChecksumTestData, 1, acc) % 256 = (acc + 107) % 256

\* C14: calculate_checksum of the 16 bytes ahead of the loop is their sum
\* modulo 256; a wrap of the accumulator at 2^16, taken from any value the
\* loop can hold, leaves the low 8 bits as they are; the bytes 3C 02 00 01 00 01 00 01 00 01 00 01 0A 05 14 05 give 107.
C14_ChecksumIsSumMod256 ==
    /\ calculate_checksum(ChecksumTestData) = 107
    /\ WrapKeepsLowBits
    /\ Len(buffer) >= 16
         => calculate_checksum(SubSeq(buffer, 1, 16)) = ByteSum(buffer, 16) % 256

\* the loop is about to accept a frame whose first 16 bytes sum to more than
\* 255
C14_Witness ==
    /\ pc = "while"
    /\ Len(buffer) >= 17
    /\ buffer[1] = 60
    /\ buffer[2] = 2
    /\ ByteSum(buffer, 16) > 255
    /\ calculate_checksum(SubSeq(buffer, 1, 16)) = buffer[17]

\* ------------------------------------------------------------------------
\* C15  Decoding of a valid frame.
\* ------------------------------------------------------------------------
\* C15: every emitted SensorData holds, for the window w it was parsed from,
\* the five big-endian 16-bit values of the byte pairs at offsets 2..11 in
\* order and, in tenths, 10 * w[12] + w[13] and 10 * w[14] + w[15], the
\* fractional byte taken as it is; the frame of test_parse_frame_valid gives
\* 400, 5, 10, 20, 30, 25.5 and 50.2.
C15_DecodedFields ==
    /\ parse_frame(FrameA) =
         << [ eco2 |-> 400, ech2o |-> 5, tvoc |-> 10, pm2_5 |-> 20, pm10 |-> 30,
              temperature |-> 255, humidity |-> 502 ] >>
    /\ Len(windows) = Len(emitted)
    /\ \A k \in 1..Len(emitted) :
         LET w == Window(windows[k]) IN
         /\ emitted[k].eco2 = 256 * w[3] + w[4]
         /\ emitted[k].ech2o = 256 * w[5] + w[6]
         /\ emitted[k].tvoc = 256 * w[7] + w[8]
         /\ emitted[k].pm2_5 = 256 * w[9] + w[10]
         /\ emitted[k].pm10 = 256 * w[11] + w[12]
         /\ emitted[k].temperature = 10 * w[13] + w[14]
         /\ emitted[k].humidity = 10 * w[15] + w[16]

\* the test frame and a frame with fractional byte 15 (10 + 15/10 = 11.5)
\* were both decoded
C15_Witness ==
    /\ \E k \in 1..Len(emitted) : emitted[k].eco2 = 400 /\ emitted[k].humidity = 502
    /\ \E k \in 1..Len(emitted) :
         /\ Window(windows[k])[14] = 15
         /\ emitted[k].temperature = 115

\* ------------------------------------------------------------------------
\* C16  An incomplete frame start is kept.
\* ------------------------------------------------------------------------
\* the loop is about to run on a buffer whose first marker A has fewer than
\* 17 bytes from it to the end
IncompleteStart ==
    /\ pc = "while"
    /\ Len(buffer) >= 17
    /\ CandidateStart > 0
    /\ Len(buffer) - CandidateStart + 1 < 17

\* C16: when the first marker A is found and fewer than 17 bytes remain from
\* it on, the pass stops with the buffer holding exactly the bytes from that
\* marker to the end, the marker first, and nothing is emitted or reported.
C16_IncompleteStartKept ==
    [][ IncompleteStart
            => /\ pc' = "read"
               /\ buffer' = SubSeq(buffer, CandidateStart, Len(buffer))
               /\ buffer'[1] = 60
               /\ emitted' = emitted
               /\ diags' = diags
               /\ UNCHANGED << input, rcvd, lastRead, result >> ]_vars

\* a pass has ended on the first bytes of a frame, the byte before them, a
\* noise byte, being the last one removed
C16_Witness ==
    /\ pc = "read"
    /\ lastRead = "data"
    /\ buffer # << >>
    /\ Len(buffer) < 17
    /\ buffer[1] = 60
    /\ Base > 0
    /\ input[Base] = 7
    /\ emitted = << >>
    /\ diags = << >>

\* ------------------------------------------------------------------------
\* C17  The one-byte resynchronization step.
\* ------------------------------------------------------------------------
\* the loop is about to examine 17 bytes that start with marker A: those at
\* the front of the buffer or, in the same iteration, those left at the front
\* once the bytes before the first marker A are dropped
ExaminesCandidate ==
    /\ pc = "while"
    /\ Len(buffer) >= 17
    /\ Len(Candidate) = 17

HeaderBMismatch == ExaminesCandidate /\ Candidate[2] # 2

ChecksumMismatch ==
    /\ ExaminesCandidate
    /\ Candidate[2] = 2
    /\ ByteSum(Candidate, 16) % 256 # Candidate[17]

\* C17: a header-B mismatch or a checksum mismatch on the 17 bytes that start
\* with marker A removes that marker byte and nothing after it, the following
\* bytes staying as they were, and emits nothing; the header-B mismatch
\* reports nothing, the checksum mismatch reports one diagnostic, and the
\* loop goes on with no error outcome.
C17_OneByteResync ==
    /\ [][ (HeaderBMismatch \/ ChecksumMismatch)
              => /\ buffer' = SubSeq(buffer, CandidateStart + 1, Len(buffer))
                 /\ emitted' = emitted
                 /\ pc' = "while"
                 /\ UNCHANGED << input, rcvd, lastRead, result >> ]_vars
    /\ [][ (HeaderBMismatch /\ buffer[1] = 60) => buffer' = Tail(buffer) ]_vars
    /\ [][ (ChecksumMismatch /\ buffer[1] = 60) => buffer' = Tail(buffer) ]_vars
    /\ [][ HeaderBMismatch => diags' = diags ]_vars
    /\ [][ ChecksumMismatch
              => diags' = Append(diags, Base + CandidateStart - 1) ]_vars

\* a frame at the head of the stream failed its checksum (diagnostic at
\* offset 0) and later a marker A followed by a byte other than 0x02 was
\* dropped without a diagnostic
C17_Witness ==
    /\ pc = "while"
    /\ diags = << 0 >>
    /\ emitted = << >>
    /\ Base > 1
    /\ input[Base] = 60
    /\ buffer # << >>
    /\ buffer[1] # 2
    /\ result = "running"

\* ------------------------------------------------------------------------
\* C18  Where the loop goes after a one-byte discard.
\* ------------------------------------------------------------------------
\* the byte removed last was a marker A dropped on its own (header-B or
\* checksum mismatch): the last byte of what is gone from the buffer is a
\* marker A and not the last byte of an accepted window (the bytes dropped
\* ahead of a marker and those of a cleared buffer are never a marker A)
OneByteDiscardedLast ==
    /\ Base > 0
    /\ input[Base] = 60
    /\ \A k \in 1..Len(windows) : windows[k] + 17 # Base

\* C18 as stated: a pass that stops after a one-byte discard has first
\* scanned what is left, so that it leaves the buffer empty or starting with
\* a marker A.
C18_AsStated ==
    (pc = "read" /\ OneByteDiscardedLast)
        => (buffer = << >> \/ buffer[1] = 60)

\* C18 amended: after a one-byte discard the loop returns to the length
\* check.  With at least 17 bytes left the marker-A scan runs in the same
\* pass: the bytes before the next marker A are dropped, and the buffer is
\* cleared if it holds none.  With fewer than 17 left (16, then) the pass
\* stops at once and leaves them as they are, scanned neither for garbage nor
\* for clearing.
C18_ReturnsToLengthCheck ==
    /\ []((pc = "read" /\ OneByteDiscardedLast) => Len(buffer) = 16)
    /\ [][ (pc = "while" /\ OneByteDiscardedLast /\ Len(buffer) < 17)
              => /\ pc' = "read"
                 /\ UNCHANGED << buffer, emitted, diags >> ]_vars
    /\ [][ (pc = "while" /\ OneByteDiscardedLast /\ Len(buffer) >= 17
                          /\ NoMarker(buffer))
              => buffer' = << >> /\ pc' = "while" ]_vars
    /\ [][ (pc = "while" /\ OneByteDiscardedLast /\ Len(buffer) >= 17
                          /\ ~NoMarker(buffer))
              => /\ Len(buffer') <= Len(buffer) - CandidateStart + 1
                 /\ (Len(Candidate) < 17
                       => buffer' = SubSeq(buffer, CandidateStart, Len(buffer))) ]_vars

\* a pass dropped a marker A after a checksum mismatch, dropped the bytes
\* before the next marker A, dropped that one too after a second mismatch and
\* stopped on the 16 bytes left, which do not start with a marker A
C18_Witness ==
    /\ pc = "read"
    /\ OneByteDiscardedLast
    /\ Len(diags) = 2
    /\ Len(buffer) = 16
    /\ buffer[1] # 60
    /\ \E k \in 1..16 : buffer[k] = 60

\* ------------------------------------------------------------------------
\* C19  No valid frame is lost.
\* ------------------------------------------------------------------------
\* the window at stream offset q shares a byte with a window accepted at an
\* earlier offset
OverlappedByEarlier(q) ==
    \E k \in 1..Len(windows) : windows[k] < q /\ q < windows[k] + 17

\* offsets of the completely received windows that are valid frames
ValidOffsets == { q \in 0..(rcvd - 17) : IsValidFrame(Window(q)) }

\* C19: once a pass is over, every completely received 17-byte window that is
\* a valid frame has been emitted, unless it shares a byte with a window
\* accepted before it; each accepted window is emitted once, so back-to-back
\* valid frames give one Reading per frame.
C19_NoValidFrameLost ==
    /\ PassOver
         => \A q \in ValidOffsets :
               \/ \E k \in 1..Len(windows) :
                     windows[k] = q /\ emitted[k] = SensorData(Window(q))
               \/ OverlappedByEarlier(q)
    /\ \A k, m \in 1..Len(windows) : k < m => windows[k] < windows[m]
    /\ (PassOver /\ \A q \in 0..(rcvd - 1) : q % 17 = 0 /\ q + 17 <= rcvd
                                              => q \in ValidOffsets)
         => Len(emitted) = rcvd \div 17

\* after a checksum failure a valid frame was emitted, and one valid window
\* was left out because it lies inside one accepted before it
C19_Witness ==
    /\ PassOver
    /\ diags # << >>
    /\ \E q \in ValidOffsets : q \in Range(windows) /\ q > diags[1]
    /\ \E q \in ValidOffsets : q \notin Range(windows) /\ OverlappedByEarlier(q)

\* ------------------------------------------------------------------------
\* C20  The buffer is a suffix of the received stream.
\* ------------------------------------------------------------------------
\* C20: the buffer is always the received stream without some prefix of it;
\* a step only adds bytes at the end of the stream received and only moves
\* the start of the buffer forward in the stream, so that no byte is altered,
\* reordered, duplicated or brought back.
C20_BufferIsSuffix ==
    /\ [](/\ 0 <= Base
          /\ Base <= rcvd
          /\ buffer = SubSeq(input, Base + 1, rcvd))
    /\ [][ /\ input' = input
           /\ rcvd' >= rcvd
           /\ rcvd' - Len(buffer') >= Base ]_vars

\* bytes were dropped one by one and as a frame, and the bytes received
\* after that frame are still buffered
C20_Witness ==
    /\ pc = "read"
    /\ lastRead = "data"
    /\ diags # << >>
    /\ windows # << >>
    /\ buffer # << >>
    /\ Len(buffer) < 17
    /\ Base = windows[Len(windows)] + 17
    /\ rcvd > Base

====
